---- MODULE Spec2Model ----
(***************************************************************************)
(* Model of scripts/misc.py: compute_3d_area(lat, lon, depth).             *)
(*                                                                         *)
(* Number representation.  Angles in degrees are integers counting         *)
(* quarter degrees (0.25 degree = 1), so the half cell height 0.25 of      *)
(* line 21 is 1 and a 0.5 degree spacing is 2.  An angle in radians is     *)
(* the same integer, in units of deg_to_rad / 4 = pi / 720.  np.sin is a   *)
(* fixed-point sine: SinScale * sin(x) rounded to the nearest integer.     *)
(* An area is an integer in units of                                       *)
(*     AU = R^2 * (pi / 720) / SinScale   square metres,                   *)
(* so R**2 * delta_lambda * (sin(n) - sin(s)) is                           *)
(*     delta_lambda * (Sin(n) - Sin(s))   AU,                              *)
(* and the surface 4 * pi * R^2 of the sphere is exactly                   *)
(*     2880 * SinScale AU   (4 * pi / (pi / 720) = 2880).                  *)
(***************************************************************************)
EXTENDS Integers, Sequences, FiniteSets, TLC

VARIABLES pc, lat, lon, depth, lat_edges, area_2d, area_2d_da, area_3d_da

vars == <<pc, lat, lon, depth, lat_edges, area_2d, area_2d_da, area_3d_da>>

(***************************************************************************)
(* Bounds of the inputs.                                                   *)
(***************************************************************************)
MaxLat == 3

MaxLon == 2

MaxDepth == 2

MaxLonStart == 15

\* Latitudes (quarter degrees) around the south pole, the equator and the
\* north pole; -362 and 362 lie outside [-90, 90].
LatVals == {-362, -360, -359, -358, -2, 0, 1, 2, 357, 358, 360, 362}

\* Longitudes (quarter degrees): spacings of 0.25, 0.5 and 0.75 degree occur.
LonVals == {0, 2, 3}

\* Depth levels (metres).
DepthVals == {0, 10, 100}

RECURSIVE Ascending(_)
Ascending(s) ==
    IF Len(s) <= 1 THEN TRUE
    ELSE s[1] < s[2] /\ Ascending(Tail(s))

AscendingSeqs(S, n) ==
    UNION {{s \in [1..k -> S] : Ascending(s)} : k \in 0..n}

LatInputs == AscendingSeqs(LatVals, MaxLat)

LonInputs == AscendingSeqs(LonVals, MaxLon)

DepthInputs == AscendingSeqs(DepthVals, MaxDepth)

(***************************************************************************)
(* np.sin, in fixed point.  SinTable[q + 1] = round(SinScale * sin(q/4     *)
(* degrees)) for q = 0 .. 360; the other angles follow by symmetry.        *)
(***************************************************************************)
SinTable == <<
    0, 436, 873, 1309, 1745, 2181, 2618, 3054, 3490, 3926, 4362, 4798,
    5234, 5669, 6105, 6540, 6976, 7411, 7846, 8281, 8716, 9150, 9585, 10019,
    10453, 10887, 11320, 11754, 12187, 12620, 13053, 13485, 13917, 14349, 14781, 15212,
    15643, 16074, 16505, 16935, 17365, 17794, 18224, 18652, 19081, 19509, 19937, 20364,
    20791, 21218, 21644, 22070, 22495, 22920, 23345, 23769, 24192, 24615, 25038, 25460,
    25882, 26303, 26724, 27144, 27564, 27983, 28402, 28820, 29237, 29654, 30071, 30486,
    30902, 31316, 31730, 32144, 32557, 32969, 33381, 33792, 34202, 34612, 35021, 35429,
    35837, 36244, 36650, 37056, 37461, 37865, 38268, 38671, 39073, 39474, 39875, 40275,
    40674, 41072, 41469, 41866, 42262, 42657, 43051, 43445, 43837, 44229, 44620, 45010,
    45399, 45787, 46175, 46561, 46947, 47332, 47716, 48099, 48481, 48862, 49242, 49622,
    50000, 50377, 50754, 51129, 51504, 51877, 52250, 52621, 52992, 53361, 53730, 54097,
    54464, 54829, 55194, 55557, 55919, 56280, 56641, 57000, 57358, 57715, 58070, 58425,
    58779, 59131, 59482, 59832, 60182, 60529, 60876, 61222, 61566, 61909, 62251, 62592,
    62932, 63271, 63608, 63944, 64279, 64612, 64945, 65276, 65606, 65935, 66262, 66588,
    66913, 67237, 67559, 67880, 68200, 68518, 68835, 69151, 69466, 69779, 70091, 70401,
    70711, 71019, 71325, 71630, 71934, 72236, 72537, 72837, 73135, 73432, 73728, 74022,
    74314, 74606, 74896, 75184, 75471, 75756, 76041, 76323, 76604, 76884, 77162, 77439,
    77715, 77988, 78261, 78532, 78801, 79069, 79335, 79600, 79864, 80125, 80386, 80644,
    80902, 81157, 81412, 81664, 81915, 82165, 82413, 82659, 82904, 83147, 83389, 83629,
    83867, 84104, 84339, 84573, 84805, 85035, 85264, 85491, 85717, 85941, 86163, 86384,
    86603, 86820, 87036, 87250, 87462, 87673, 87882, 88089, 88295, 88499, 88701, 88902,
    89101, 89298, 89493, 89687, 89879, 90070, 90259, 90446, 90631, 90814, 90996, 91176,
    91355, 91531, 91706, 91879, 92050, 92220, 92388, 92554, 92718, 92881, 93042, 93201,
    93358, 93514, 93667, 93819, 93969, 94118, 94264, 94409, 94552, 94693, 94832, 94970,
    95106, 95240, 95372, 95502, 95630, 95757, 95882, 96005, 96126, 96246, 96363, 96479,
    96593, 96705, 96815, 96923, 97030, 97134, 97237, 97338, 97437, 97534, 97630, 97723,
    97815, 97905, 97992, 98079, 98163, 98245, 98325, 98404, 98481, 98556, 98629, 98700,
    98769, 98836, 98902, 98965, 99027, 99087, 99144, 99200, 99255, 99307, 99357, 99406,
    99452, 99497, 99540, 99580, 99619, 99657, 99692, 99725, 99756, 99786, 99813, 99839,
    99863, 99885, 99905, 99923, 99939, 99953, 99966, 99976, 99985, 99991, 99996, 99999,
    100000
>>

SinScale == SinTable[361]

Sin(q) ==
    LET r == q % 1440
        h == IF r > 720 THEN r - 720 ELSE r
        v == IF h <= 360 THEN SinTable[h + 1] ELSE SinTable[720 - h + 1]
    IN  IF r > 720 THEN 0 - v ELSE v

(***************************************************************************)
(* Constants of the function.                                              *)
(***************************************************************************)
\* 0.25 degree: the offset from a cell centre to its edge (line 21).
HalfCell == 1

\* delta_lambda = 0.25 * deg_to_rad (line 28), in units of pi / 720.
delta_lambda == 1

\* 4 * pi * R^2 with R = 6371000 (line 17), in AU.
SphereArea == 2880 * SinScale

(***************************************************************************)
(* Arrays.  An ndarray is its nested sequence of values; a DataArray is a  *)
(* record of the values, the shape, the dimension names, the coordinates,  *)
(* the name and the attributes.                                            *)
(***************************************************************************)
NoArray ==
    [data |-> <<>>, shape |-> <<>>, dims |-> <<>>, coords |-> <<>>,
     name |-> "", attrs |-> <<>>]

\* Variant of LatEdges: the closing edge taken from the first latitude, lat[0],
\* instead of the last, lat[-1].
LatEdgesFromFirst(la) ==
    [i \in 1..Len(la) |-> la[i] - HalfCell] \o <<la[1] + HalfCell>>

\* lat_edges = np.append(lat - 0.25, lat[-1] + 0.25)
LatEdges(la) ==
    [i \in 1..Len(la) |-> la[i] - HalfCell] \o <<la[Len(la)] + HalfCell>>

\* lat_north = lat_edges[1:]
LatNorth(edges) == [i \in 1..(Len(edges) - 1) |-> edges[i + 1]]

\* lat_south = lat_edges[:-1]
LatSouth(edges) == [i \in 1..(Len(edges) - 1) |-> edges[i]]

\* area_2d = R**2 * delta_lambda * (np.sin(lat_north_rad) - np.sin(lat_south_rad))
CellArea(edges) ==
    LET lat_north == LatNorth(edges)
        lat_south == LatSouth(edges)
    IN  [i \in 1..Len(lat_north) |->
            delta_lambda * (Sin(lat_north[i]) - Sin(lat_south[i]))]

\* Variant of Tile: np.tile(area_2d, len(lon)).reshape(len(lat), len(lon)), the
\* flat repetition cut into rows.
TileReshape(a, lo) ==
    [i \in 1..Len(a) |-> [j \in 1..Len(lo) |->
        a[(((i - 1) * Len(lo) + (j - 1)) % Len(a)) + 1]]]

\* Variant of Tile: the longitude width taken from the spacing of lon
\* instead of the fixed delta_lambda.
TileLonSpacing(a, lo) ==
    [i \in 1..Len(a) |-> [j \in 1..Len(lo) |->
        a[i] * (IF Len(lo) > 1 THEN lo[2] - lo[1] ELSE 1)]]

\* np.tile(area_2d[:, np.newaxis], (1, len(lon)))
Tile(a, lo) == [i \in 1..Len(a) |-> [j \in 1..Len(lo) |-> a[i]]]

\* xr.DataArray(area_2d, coords={"lat": lat, "lon": lon}, dims=["lat", "lon"], ...)
DataArray2D(a, la, lo) ==
    [data   |-> a,
     shape  |-> <<Len(la), Len(lo)>>,
     dims   |-> <<"lat", "lon">>,
     coords |-> [lat |-> la, lon |-> lo],
     name   |-> "cell_area",
     attrs  |-> [units |-> "m^2",
                 description |-> "Area of each 1x1 degree grid cell"]]

\* Variant of ExpandDims: a zero array along the new axis whose first level
\* alone receives the 2-dimensional field.
ExpandDimsFirstLevel(da, de) ==
    [da EXCEPT !.data   = [k \in 1..Len(de) |->
                              IF k = 1 THEN da.data
                              ELSE [i \in 1..Len(da.data) |->
                                      [j \in 1..Len(da.data[i]) |-> 0]]],
               !.shape  = <<Len(de)>> \o da.shape,
               !.dims   = <<"depth">> \o da.dims,
               !.coords = [lat |-> da.coords.lat, lon |-> da.coords.lon,
                           depth |-> de]]

\* .expand_dims(depth=depth): a new leading axis, the array repeated along it
ExpandDims(da, de) ==
    [da EXCEPT !.data   = [k \in 1..Len(de) |-> da.data],
               !.shape  = <<Len(de)>> \o da.shape,
               !.dims   = <<"depth">> \o da.dims,
               !.coords = [lat |-> da.coords.lat, lon |-> da.coords.lon,
                           depth |-> de]]

\* the position of dimension d among dims
AxisOf(dims, d) == CHOOSE p \in 1..Len(dims) : dims[p] = d

\* Variant of Transpose: the axes left as expand_dims produced them.
TransposeOmitted(da, order) == da

\* .transpose(*order) of a 3-dimensional DataArray
Transpose(da, order) ==
    LET p1 == AxisOf(order, da.dims[1])
        p2 == AxisOf(order, da.dims[2])
        p3 == AxisOf(order, da.dims[3])
        sh == [n \in 1..3 |-> da.shape[AxisOf(da.dims, order[n])]]
    IN  [da EXCEPT
            !.data  = [a \in 1..sh[1] |-> [b \in 1..sh[2] |-> [c \in 1..sh[3] |->
                          LET ix == <<a, b, c>>
                          IN  da.data[ix[p1]][ix[p2]][ix[p3]]]]],
            !.shape = sh,
            !.dims  = order]

\* .assign_coords(depth=("depth", depth.data, {...}))
AssignCoords(da, de) ==
    [da EXCEPT !.coords = [lat |-> da.coords.lat, lon |-> da.coords.lon,
                           depth |-> de]]

\* area_3d_da.name = "3D_area"; area_3d_da.attrs.update({...})
Finish(da) ==
    [da EXCEPT !.name  = "3D_area",
               !.attrs = [units |-> "m^2",
                          description |-> "3D area of grid cells over depth"]]

\* The whole function, for a non-empty lat.
compute_3d_area(la, lo, de) ==
    Finish(AssignCoords(
        Transpose(ExpandDims(DataArray2D(Tile(CellArea(LatEdges(la)), lo), la, lo),
                             de),
                  <<"lat", "lon", "depth">>),
        de))

(***************************************************************************)
(* The call, statement by statement.                                       *)
(***************************************************************************)
Locals ==
    /\ pc = "call"
    /\ lat_edges = <<>>
    /\ area_2d = <<>>
    /\ area_2d_da = NoArray
    /\ area_3d_da = NoArray

Init ==
    /\ lat \in LatInputs
    /\ lon \in LonInputs
    /\ depth \in DepthInputs
    /\ Locals

\* line 21; lat[-1] raises IndexError when lat is empty
Edges ==
    /\ pc = "call"
    /\ IF lat = <<>>
       THEN /\ pc' = "IndexError"
            /\ lat_edges' = lat_edges
       ELSE /\ lat_edges' = LatEdges(lat)
            /\ pc' = "edges"
    /\ UNCHANGED <<lat, lon, depth, area_2d, area_2d_da, area_3d_da>>

\* lines 22-31
Area ==
    /\ pc = "edges"
    /\ area_2d' = CellArea(lat_edges)
    /\ pc' = "area"
    /\ UNCHANGED <<lat, lon, depth, lat_edges, area_2d_da, area_3d_da>>

\* line 32
TileLon ==
    /\ pc = "area"
    /\ area_2d' = Tile(area_2d, lon)
    /\ pc' = "tiled"
    /\ UNCHANGED <<lat, lon, depth, lat_edges, area_2d_da, area_3d_da>>

\* lines 35-41
MakeDataArray ==
    /\ pc = "tiled"
    /\ area_2d_da' = DataArray2D(area_2d, lat, lon)
    /\ pc' = "da2d"
    /\ UNCHANGED <<lat, lon, depth, lat_edges, area_2d, area_3d_da>>

\* line 44
ExpandTranspose ==
    /\ pc = "da2d"
    /\ area_3d_da' = Transpose(ExpandDims(area_2d_da, depth),
                               <<"lat", "lon", "depth">>)
    /\ pc' = "expanded"
    /\ UNCHANGED <<lat, lon, depth, lat_edges, area_2d, area_2d_da>>

\* lines 47-49
Coords ==
    /\ pc = "expanded"
    /\ area_3d_da' = AssignCoords(area_3d_da, depth)
    /\ pc' = "coords"
    /\ UNCHANGED <<lat, lon, depth, lat_edges, area_2d, area_2d_da>>

\* lines 50-53
Return ==
    /\ pc = "coords"
    /\ area_3d_da' = Finish(area_3d_da)
    /\ pc' = "done"
    /\ UNCHANGED <<lat, lon, depth, lat_edges, area_2d, area_2d_da>>

Next ==
    \/ Edges
    \/ Area
    \/ TileLon
    \/ MakeDataArray
    \/ ExpandTranspose
    \/ Coords
    \/ Return

Spec == Init /\ [][Next]_vars

(***************************************************************************)
(* The boundary scenario: the global 0.5 degree grid.                      *)
(***************************************************************************)
\* lat = -89.75, -89.25, ..., 89.75
GlobalLat == [i \in 1..360 |-> -359 + 2 * (i - 1)]

\* 720 longitudes at 0.5 degree spacing, from start
GlobalLon(start) == [j \in 1..720 |-> start + 2 * (j - 1)]

GlobalDepth == <<0, 10, 100>>

InitGlobal ==
    /\ lat = GlobalLat
    /\ \E start \in 0..MaxLonStart : lon = GlobalLon(start)
    /\ depth = GlobalDepth
    /\ Locals

SpecGlobal == InitGlobal /\ [][Next]_vars

(***************************************************************************)
(* Properties.                                                             *)
(***************************************************************************)
Done == pc = "done"

NonEmptyInputs == lat # <<>> /\ lon # <<>> /\ depth # <<>>

\* consecutive values of s differ by step
Uniform(s, step) == \A i \in 1..(Len(s) - 1) : s[i + 1] - s[i] = step

InRange(s, lo, hi) == \A i \in 1..Len(s) : lo <= s[i] /\ s[i] <= hi

\* f[lo] + ... + f[hi], by halves
RECURSIVE SumRange(_, _, _)
SumRange(f, lo, hi) ==
    IF lo > hi THEN 0
    ELSE IF lo = hi THEN f[lo]
    ELSE LET mid == (lo + hi) \div 2
         IN  SumRange(f, lo, mid) + SumRange(f, mid + 1, hi)

\* the sum of depth slice d of a (lat, lon, depth) array over all rows and columns
SumSlice(data, d) ==
    LET rows == [i \in 1..Len(data) |->
                    SumRange([j \in 1..Len(data[i]) |-> data[i][j][d]],
                             1, Len(data[i]))]
    IN  SumRange(rows, 1, Len(rows))

Abs(x) == IF x < 0 THEN 0 - x ELSE x

\* C1: for non-empty inputs the returned array has the three axes (lat, lon,
\* depth), in this order, and the shape (len(lat), len(lon), len(depth)).
C1_ShapeLatLonDepth ==
    (Done /\ NonEmptyInputs) =>
        /\ area_3d_da.dims = <<"lat", "lon", "depth">>
        /\ area_3d_da.shape = <<Len(lat), Len(lon), Len(depth)>>
        /\ Len(area_3d_da.data) = Len(lat)
        /\ \A i \in 1..Len(lat) :
              /\ Len(area_3d_da.data[i]) = Len(lon)
              /\ \A j \in 1..Len(lon) : Len(area_3d_da.data[i][j]) = Len(depth)

C1_Witness ==
    Done /\ Len(lat) = 3 /\ Len(lon) = 2 /\ Len(depth) = 1

\* C2: the returned array has its dimensions in the order (depth, lat, lon):
\* the first axis has length len(depth), the second len(lat), the third
\* len(lon).
C2_ShapeDepthLatLon ==
    (Done /\ NonEmptyInputs) =>
        /\ area_3d_da.dims = <<"depth", "lat", "lon">>
        /\ area_3d_da.shape = <<Len(depth), Len(lat), Len(lon)>>

\* C3: depth-invariance: output[i, j, d1] = output[i, j, d2] for all i, j,
\* d1, d2, and every depth slice equals the 2-dimensional area field computed
\* before the depth expansion.
C3_DepthInvariance ==
    Done =>
        \A i \in 1..Len(lat) : \A j \in 1..Len(lon) : \A d1 \in 1..Len(depth) :
            /\ area_3d_da.data[i][j][d1] = area_2d_da.data[i][j]
            /\ \A d2 \in 1..Len(depth) :
                  area_3d_da.data[i][j][d1] = area_3d_da.data[i][j][d2]

C3_Witness ==
    /\ Done
    /\ Len(depth) = 2 /\ Len(lon) = 2 /\ Len(lat) = 2
    /\ area_3d_da.data[1][1][2] > 0
    /\ area_3d_da.data[1][1][2] # area_3d_da.data[2][1][2]

\* C4: longitude-invariance: output[i, j1, d] = output[i, j2, d] for all i,
\* j1, j2, d: the area of a row is the same in every longitude column.
C4_LonInvariance ==
    Done =>
        \A i \in 1..Len(lat) : \A d \in 1..Len(depth) :
            \A j1 \in 1..Len(lon) : \A j2 \in 1..Len(lon) :
                area_3d_da.data[i][j1][d] = area_3d_da.data[i][j2][d]

C4_Witness ==
    /\ Done
    /\ Len(lon) = 2 /\ Len(lat) = 2 /\ Len(depth) = 1
    /\ area_3d_da.data[1][2][1] > 0
    /\ area_3d_da.data[1][2][1] # area_3d_da.data[2][2][1]

\* C5: for a non-empty, ascending lat with every value in [-90, 90] and
\* non-empty lon and depth, every element of the returned array is >= 0.
C5_NonNegative ==
    (Done /\ NonEmptyInputs /\ Ascending(lat) /\ InRange(lat, -360, 360)) =>
        \A i \in 1..Len(lat) : \A j \in 1..Len(lon) : \A d \in 1..Len(depth) :
            area_3d_da.data[i][j][d] >= 0

\* C6: on the global 0.5 degree grid (360 latitudes from -89.75 to 89.75, 720
\* longitudes at 0.5 degree spacing, depth 0, 10, 100) the sum of one depth
\* slice is within 1% of the surface 4 * pi * R^2 of the sphere.
C6_GlobalSumIsSphere ==
    (Done /\ lat = GlobalLat /\ Len(lon) = 720 /\ Uniform(lon, 2)
          /\ depth = GlobalDepth) =>
        /\ area_3d_da.shape = <<360, 720, 3>>
        /\ \A d \in 1..3 :
              Abs(SumSlice(area_3d_da.data, d) - SphereArea) <= SphereArea \div 100

\* C7: if lat, lon or depth is empty the call fails and returns no array.
C7_EmptyInputFails ==
    (lat = <<>> \/ lon = <<>> \/ depth = <<>>) => ~Done

\* C8: for an ascending lat with uniform 0.5 degree spacing, the value of
\* every cell of row i is R^2 * (0.25 * pi / 180) * (sin(lat[i] + 0.25) -
\* sin(lat[i] - 0.25)): the southern edge of cell i is lat[i] - 0.25 and its
\* northern edge is lat[i] + 0.25; lat = [0.0], lon = [0.0], depth = [0.0]
\* gives a (1, 1, 1) array with a positive value.
C8_UniformCellFormula ==
    (Done /\ NonEmptyInputs /\ Uniform(lat, 2)) =>
        /\ \A i \in 1..Len(lat) :
              /\ LatSouth(lat_edges)[i] = lat[i] - 1
              /\ LatNorth(lat_edges)[i] = lat[i] + 1
              /\ \A j \in 1..Len(lon) : \A d \in 1..Len(depth) :
                    area_3d_da.data[i][j][d] = Sin(lat[i] + 1) - Sin(lat[i] - 1)
        /\ (lat = <<0>> /\ lon = <<0>> /\ depth = <<0>>) =>
              /\ area_3d_da.shape = <<1, 1, 1>>
              /\ area_3d_da.data[1][1][1] > 0

C8_Witness ==
    /\ Done /\ NonEmptyInputs
    /\ Len(lat) = 3 /\ Uniform(lat, 2)
    /\ area_3d_da.data[1][1][1] # area_3d_da.data[3][1][1]

C10_ValuesIgnoreLonDepth ==
    Done =>
        /\ area_3d_da.coords.lon = lon
        /\ area_3d_da.coords.depth = depth
        /\ \A lon2 \in LonInputs : \A depth2 \in DepthInputs :
              (Len(lon2) = Len(lon) /\ Len(depth2) = Len(depth)) =>
                  compute_3d_area(lat, lon2, depth2).data = area_3d_da.data

C10_Witness ==
    /\ Done
    /\ lon = <<0, 3>> /\ depth = <<10, 100>> /\ Len(lat) = 2
    /\ area_3d_da.data[1][2][2] > 0

====
